---- MODULE Spec2Model ----
(***************************************************************************)
(* ChatController (src/lib/controllers/chatController.ts) together with    *)
(* the streaming adapter streamGenerate (src/lib/services/genai.ts).       *)
(*                                                                         *)
(* Strings are sequences of one-character strings.  Identifiers produced   *)
(* by uid() are consecutive naturals; Date.now() reads the clock `now`.    *)
(* Every generateResponse invocation is a small process whose position is  *)
(* kept in calls[a].pc, a being the id of its assistant message.           *)
(*                                                                         *)
(* Around the controller: the page (src/routes/+page.svelte) with its      *)
(* observer `update`, the chat history and the custom models kept in       *)
(* localStorage (src/lib/services/chatHistory.ts, modelStorage.ts) and the *)
(* model list of the settings dialog (src/lib/components/SetupScreen).     *)
(***************************************************************************)
EXTENDS Integers, Sequences, FiniteSets, TLC

\* ---------------------------------------------------------------- bounds
MaxId     == 5      \* number of uid() results handed out
MaxChunks == 2      \* chunks with text one stream yields at most
MaxTime   == 2      \* last value of the clock
MaxTitleText == 52  \* longest text handed to generateTitle, spaces around it not counted
MaxSessions == 3    \* session ids handed to saveChatSession and deleteChatSession directly

\* ---------------------------------------------------------------- inputs
Texts    == { <<>>, <<" ">>, <<"h">> }                    \* userText
NewTexts == { <<"e">> }                                   \* newContent
Files    == { 0, 1 }                                      \* options.attachments.length
\* chunk.text of the chunk that follows n chunks with text: the provider's
\* reply is "a", "bc", "a", "bc", ... cut into chunks, any of which may come
\* without text (<<>>)
Fragment(n) == IF n % 2 = 0 THEN <<"a">> ELSE <<"b", "c">>
Deltas(n)   == { <<>>, Fragment(n) }
\* candidates[0].groundingMetadata of a chunk, as the list of its web sources;
\* <<>> when the chunk has none
Groundings  == { <<>>, << [ uri |-> "u", title |-> "t" ] >> }

\* n times the character c
RECURSIVE Repeat(_, _)
Repeat(c, n) == IF n = 0 THEN <<>> ELSE <<c>> \o Repeat(c, n - 1)

\* arguments of generateTitle: a word of any length up to the bound, with or
\* without a space in front of it and behind it
TitleTexts ==
  { Repeat(" ", l) \o Repeat("x", n) \o Repeat(" ", t) :
      l \in 0..1, n \in 0..MaxTitleText, t \in 0..1 }

TitleLimit == 50                                          \* chatHistory.ts 7 and 10
Ellipsis   == << ".", ".", "." >>

\* Model names of the settings dialog, written short: "g" stands for "gemini",
\* "t/" for a resource prefix other than "models/"
ModelsPrefix   == << "m", "o", "d", "e", "l", "s", "/" >>
Gemini         == << "g" >>
FlashLatest    == ModelsPrefix \o << "g", "f" >>          \* models/gemini-flash-latest
ProLatest      == ModelsPrefix \o << "g", "p" >>          \* models/gemini-pro-latest
DEFAULT_MODELS == << FlashLatest, ProLatest >>
\* what a user types into the model field
TypedModels ==
  { <<>>, << " " >>, << "g", "x" >>, FlashLatest,
    ModelsPrefix \o << "g", "x" >>, << " " >> \o ModelsPrefix \o << "g", "y" >> \o << " " >> }
\* what listModels resolves with: the names the provider reports, in the order
\* of localeCompare (genai.ts 70), which the filters of the dialog keep
Listings ==
  { << ModelsPrefix \o << "e" >>, FlashLatest, ModelsPrefix \o << "g", "x" >> >>,
    << ModelsPrefix \o << "g", "x" >>, << "t", "/", "g", "z" >> >> }

DefaultModel == "gemini-2.5-flash"
PageModel    == "models/gemini-flash-latest"              \* the model of the page
NewChatTitle == << "N", "e", "w", " ", "C", "h", "a", "t" >>

\* the persisted session offered to loadSession: a list that holds nothing but
\* an assistant message; its ids are outside 1..MaxId
Saved ==
  [ id |-> 101, title |-> << "T" >>, model |-> "models/gemini-pro-latest",
    createdAt |-> 0, updatedAt |-> 0,
    messages |-> << [id |-> 201, role |-> "assistant", content |-> <<"a">>, createdAt |-> 0] >> ]
SavedSessions == { Saved }

\* ---------------------------------------------------------------- state
VARIABLES
  messages,         \* ChatController.messages
  model,            \* ChatController.model
  generating,       \* ChatController.generating
  abortController,  \* ChatController.abortController: 0 (null) or the handle's id
  sessionId,        \* ChatController.sessionId
  sessionTitle,     \* ChatController.sessionTitle
  calls,            \* generateResponse invocations, keyed by assistant message id
  nextId,           \* next value uid() returns
  now,              \* Date.now()
  lastCall,         \* the public method the last step called, "none" after a stream step
  exported,         \* the ChatSession exportSession returned, if the last call was one
  born,             \* when the live session was created (the controller keeps no such field)
  ui,               \* +page.svelte: messages, generating, currentSessionId, chatSessions, model
  storage,          \* localStorage: the values under gemini_chat_sessions and gemini_custom_models
  setup,            \* SetupScreen.svelte: customModels, availableModels
  titleCall,        \* one call of generateTitle: its argument and, once made, its result
  kept,             \* by id, the session last saved under it and not deleted since (bookkeeping)
  held,             \* a session object exportSession returned to a caller that keeps it
  stops             \* bookkeeping: stop() calls before and during the present generation

vars == << messages, model, generating, abortController, sessionId, sessionTitle,
           calls, nextId, now, lastCall, exported, born, ui, storage, setup, titleCall, kept,
           held, stops >>

\* what lies around the controller
outer == << ui, storage, setup, titleCall, kept, held, stops >>

\* ---------------------------------------------------------------- helpers
IsSpace(c) == c = " "

RECURSIVE TrimStart(_)
TrimStart(s) == IF s # <<>> /\ IsSpace(Head(s)) THEN TrimStart(Tail(s)) ELSE s

RECURSIVE TrimEnd(_)
TrimEnd(s) == IF s # <<>> /\ IsSpace(s[Len(s)]) THEN TrimEnd(SubSeq(s, 1, Len(s) - 1)) ELSE s

Trim(s) == TrimEnd(TrimStart(s))

RECURSIVE Flatten(_)
Flatten(ss) == IF ss = <<>> THEN <<>> ELSE Head(ss) \o Flatten(Tail(ss))

\* Array.prototype.findIndex, 1-based; 0 stands for -1
FindIndex(msgs, id) ==
  IF \E k \in 1..Len(msgs) : msgs[k].id = id
  THEN CHOOSE k \in 1..Len(msgs) :
         msgs[k].id = id /\ \A j \in 1..(k - 1) : msgs[j].id # id
  ELSE 0

InFlight == { a \in DOMAIN calls : calls[a].pc # "done" }

\* calls keeps a finished invocation until another method changes the list
Retired == [ a \in InFlight |-> calls[a] ]

\* values of lastCall; id is the messageId / session id argument, 0 without one;
\* text and files are the userText of send and the number of attachments in its options
NoCall == [ op |-> "none", id |-> 0, text |-> <<>>, files |-> 0 ]
Call(op, id) == [ op |-> op, id |-> id, text |-> <<>>, files |-> 0 ]
SendCall(userText, files) == [ op |-> "send", id |-> 0, text |-> userText, files |-> files ]

\* value of exported when the last call was not exportSession
NoSession ==
  [ id |-> 0, title |-> <<>>, messages |-> <<>>, model |-> "", createdAt |-> 0, updatedAt |-> 0 ]

\* one observer invocation onChange(messages, generating), with what isBusy()
\* and stop() would find at that moment
Snapshot(msgs, busy, handle) == [ messages |-> msgs, busy |-> busy, handle |-> handle ]

SignalAborted(h) == h \in DOMAIN calls /\ calls[h].aborts > 0

\* ---------------------------------------------------------------- Init
\* new ChatController(m) (chatController.ts 19-23)
InitController(m) ==
  /\ messages = <<>>
  /\ model = m
  /\ generating = FALSE
  /\ abortController = 0
  /\ sessionId = 1                 \* uid() in the constructor
  /\ sessionTitle = NewChatTitle
  /\ calls = <<>>
  /\ nextId = 2
  /\ now = 0
  /\ lastCall = NoCall
  /\ exported = NoSession
  /\ born = 0                      \* the constructor runs at time 0

\* the page after onMount (+page.svelte 21-33, 401-425)
InitPage ==
  ui = [ messages |-> <<>>, generating |-> FALSE, currentSessionId |-> 1,
         chatSessions |-> <<>>, model |-> PageModel ]

\* localStorage without an entry reads as the empty list under both keys
\* (chatHistory.ts 35-37, modelStorage.ts 11)
InitStorage ==
  /\ storage = [ sessions |-> <<>>, customModels |-> <<>> ]
  /\ kept = <<>>

\* the settings dialog before it is opened (SetupScreen.svelte 164)
InitSetup == setup = [ customModels |-> <<>>, availableModels |-> <<>> ]

\* no call of generateTitle made
NoTitleCall == [ text |-> <<>>, title |-> <<>>, made |-> FALSE ]

\* no stop() call made yet
NoStops == [ seen |-> FALSE, before |-> FALSE ]

\* no caller holds a session, no stop() was called
InitAside == held = NoSession /\ stops = NoStops

Init ==
  /\ InitController(DefaultModel)
  /\ InitPage
  /\ InitStorage
  /\ InitSetup
  /\ InitAside
  /\ titleCall = NoTitleCall

\* ---------------------------------------------------------------- generateResponse
\* faulty variant: try / finally without the catch block
EscapesWithoutCatch(outcome) == outcome = "error"

\* catch (err) { console.error(...) }: does a failure of the stream leave
\* generateResponse as a rejection?
Escapes(outcome) == FALSE

\* faulty variant: assistantMsg.content = delta + assistantMsg.content
AppendDeltaInFront(content, delta) == delta \o content

\* faulty variant: assistantMsg.content = delta
AppendDeltaOverwrites(content, delta) == delta

\* assistantMsg.content += delta
AppendDelta(content, delta) == content \o delta

\* faulty variant: the map selects by role, not by id
ReplaceByRole(msgs, assistantMsg) ==
  [ k \in 1..Len(msgs) |-> IF msgs[k].role = "assistant" THEN assistantMsg ELSE msgs[k] ]

\* this.messages.map((m) => m.id === assistantMsg.id ? assistantMsg : m)
ReplaceById(msgs, assistantMsg) ==
  [ k \in 1..Len(msgs) |-> IF msgs[k].id = assistantMsg.id THEN assistantMsg ELSE msgs[k] ]

\* faulty variant: the whole list, placeholder included, is handed to the transport
HistorySentWhole(list) == list

\* this.messages.slice(0, -1) at line 64
HistorySent(list) == SubSeq(list, 1, Len(list) - 1)

\* Lines 47-58, then streamGenerate up to its first await (genai.ts 51-54).
\* msgs is this.messages as the caller left it, a the result of uid() at line 48;
\* op, text and target are the calling method and its arguments.
GenerateResponse(msgs, a, op, text, target) ==
  LET assistantMsg == [ id |-> a, role |-> "assistant", content |-> <<>>, createdAt |-> now ]
      list == Append(msgs, assistantMsg)
      rec == [ op        |-> op,
               pre       |-> messages,
               preBusy   |-> generating,
               text      |-> text,
               target    |-> target,
               msg       |-> assistantMsg,
               sent      |-> HistorySent(list),
               model     |-> model,
               aborts    |-> 0,
               pc        |-> "connecting",
               outcome   |-> "none",
               delivered |-> <<>>,
               stopAt    |-> -1,
               stopPc    |-> "none",
               grounding |-> <<>>,
               escaped   |-> FALSE,
               malformed |-> 0,
               obs       |-> << Snapshot(list, TRUE, abortController # 0) >> ]
  IN /\ messages' = list
     /\ generating' = TRUE
     /\ abortController' = a
     /\ calls' = [ c \in InFlight \cup {a} |-> IF c = a THEN rec ELSE calls[c] ]
     /\ nextId' = a + 1

\* generateStream(...) resolves with the response (genai.ts 54)
Connect(a) ==
  /\ a \in DOMAIN calls /\ calls[a].pc = "connecting"
  /\ lastCall' = NoCall
  /\ exported' = NoSession
  /\ calls' = [calls EXCEPT ![a].pc = "streaming"]
  /\ UNCHANGED << messages, model, generating, abortController, sessionId,
                  sessionTitle, nextId, now, born >>

\* generateStream(...) rejects (genai.ts 54)
ConnectFail(a) ==
  /\ a \in DOMAIN calls /\ calls[a].pc = "connecting"
  /\ lastCall' = NoCall
  /\ exported' = NoSession
  /\ calls' = [calls EXCEPT ![a].pc = "settled", ![a].outcome = "error"]
  /\ UNCHANGED << messages, model, generating, abortController, sessionId,
                  sessionTitle, nextId, now, born >>

\* if (signal?.aborted) break;  evaluated after the chunk's text was handed on
BreakAfterChunk(aborted) == aborted

\* One iteration of the for-await loop (genai.ts 55-59) with onText
\* (chatController.ts 68-74) inlined; d is chunk.text, <<>> when absent, g the
\* grounding sources the chunk carries, which the loop does not read:
\* calls[a].grounding keeps the last ones the provider sent.
ChunkWith(a, d, g) ==
  /\ a \in DOMAIN calls /\ calls[a].pc = "streaming"
  /\ d # <<>> => Len(calls[a].delivered) < MaxChunks
  /\ lastCall' = NoCall
  /\ exported' = NoSession
  /\ LET c    == calls[a]
         msg  == IF d # <<>> THEN [c.msg EXCEPT !.content = AppendDelta(c.msg.content, d)]
                             ELSE c.msg
         list == IF d # <<>> THEN ReplaceById(messages, msg) ELSE messages
         obs  == IF d # <<>>
                   THEN Append(c.obs, Snapshot(list, generating, abortController # 0))
                   ELSE c.obs
         brk  == BreakAfterChunk(c.aborts > 0)
     IN /\ messages' = list
        /\ calls' = [calls EXCEPT ![a] =
                       [c EXCEPT !.msg = msg, !.obs = obs,
                                 !.delivered = IF d # <<>> THEN Append(c.delivered, d)
                                                           ELSE c.delivered,
                                 !.grounding = IF g # <<>> THEN g ELSE c.grounding,
                                 !.pc = IF brk THEN "settled" ELSE "streaming",
                                 !.outcome = IF brk THEN "cancel" ELSE "none"]]
  /\ UNCHANGED << model, generating, abortController, sessionId, sessionTitle,
                  nextId, now, born >>

\* a chunk without grounding metadata
Chunk(a, d) == ChunkWith(a, d, <<>>)

\* the response iterator is exhausted (genai.ts 55)
StreamEnd(a) ==
  /\ a \in DOMAIN calls /\ calls[a].pc = "streaming"
  /\ lastCall' = NoCall
  /\ exported' = NoSession
  /\ calls' = [calls EXCEPT ![a].pc = "settled", ![a].outcome = "success"]
  /\ UNCHANGED << messages, model, generating, abortController, sessionId,
                  sessionTitle, nextId, now, born >>

\* the response iterator throws (genai.ts 55)
StreamFail(a) ==
  /\ a \in DOMAIN calls /\ calls[a].pc = "streaming"
  /\ lastCall' = NoCall
  /\ exported' = NoSession
  /\ calls' = [calls EXCEPT ![a].pc = "settled", ![a].outcome = "error"]
  /\ UNCHANGED << messages, model, generating, abortController, sessionId,
                  sessionTitle, nextId, now, born >>

\* The stream yields a chunk that is not a well-formed response, so that
\* reading chunk.text at line 56 throws: the loop has no try block of its own,
\* the exception leaves streamGenerate (genai.ts 55-59)
MalformedChunk(a) ==
  /\ a \in DOMAIN calls /\ calls[a].pc = "streaming"
  /\ lastCall' = NoCall
  /\ exported' = NoSession
  /\ calls' = [calls EXCEPT ![a].pc = "settled", ![a].outcome = "error",
                            ![a].malformed = @ + 1]
  /\ UNCHANGED << messages, model, generating, abortController, sessionId,
                  sessionTitle, nextId, now, born >>

\* faulty variant: the last onChange at the end of the try block, which a
\* failure of the stream skips
FinalObserverCallInTry(obs, msgs, busy, handle, outcome) ==
  IF outcome = "error" THEN obs ELSE Append(obs, Snapshot(msgs, busy, handle))

\* onChange(this.messages, this.generating) at line 81: in the finally block,
\* so it runs whatever the outcome of the try block
FinalObserverCall(obs, msgs, busy, handle, outcome) ==
  Append(obs, Snapshot(msgs, busy, handle))

\* faulty variant: a finally block without line 80
HandleKept(handle) == handle

\* this.abortController = null at line 80; 0 stands for null
HandleCleared(handle) == 0

\* faulty variant: the reset of the busy flag at the end of the try block,
\* which a failure of the stream skips
BusyAfterInTry(outcome) == outcome = "error"

\* this.generating = false at line 79: in the finally block, whatever the outcome
BusyAfter(outcome) == FALSE

\* catch / finally (chatController.ts 76-82), but for what the observer called
\* at line 81 does to the controller
FinallyBlock(a) ==
  /\ a \in DOMAIN calls /\ calls[a].pc = "settled"
  /\ lastCall' = NoCall
  /\ exported' = NoSession
  /\ generating' = BusyAfter(calls[a].outcome)
  /\ abortController' = HandleCleared(abortController)
  /\ calls' = [calls EXCEPT ![a].pc = "done",
                            ![a].escaped = Escapes(calls[a].outcome),
                            ![a].obs = FinalObserverCall(calls[a].obs, messages, generating',
                                                         abortController' # 0,
                                                         calls[a].outcome)]
  /\ UNCHANGED << messages, model, sessionId, nextId, now, born >>

\* catch / finally with an observer that leaves the controller alone
Finally(a) == FinallyBlock(a) /\ UNCHANGED sessionTitle

\* ---------------------------------------------------------------- public methods
\* faulty variant: send without `if (this.generating) return`
SendIgnoresBusy(userText, busy) == Trim(userText) # <<>>

\* send: lines 90-91, the two early returns
SendProceeds(userText, busy) == Trim(userText) # <<>> /\ ~busy

\* send (chatController.ts 85-103); files is the number of attachments the
\* caller put into options (+page.svelte 215-229), a property send never reads
Send(userText, files) ==
  /\ lastCall' = SendCall(userText, files)
  /\ exported' = NoSession
  /\ IF SendProceeds(userText, generating)
       THEN /\ nextId + 1 <= MaxId
            /\ LET userMsg == [ id |-> nextId, role |-> "user", content |-> userText,
                                createdAt |-> now ]
               IN GenerateResponse(Append(messages, userMsg), nextId + 1,
                                   "send", userText, 0)
       ELSE UNCHANGED << messages, generating, abortController, calls, nextId >>
  /\ UNCHANGED << model, sessionId, sessionTitle, now, born >>

\* faulty variant: editMessage without the role check of line 117
EditProceedsAnyRole(msgs, index, busy) == ~busy /\ index # 0

\* editMessage: lines 111-117, the three early returns; index is 1-based, 0 = not found
EditProceeds(msgs, index, busy) ==
  /\ ~busy
  /\ index # 0
  /\ msgs[index].role = "user"

\* faulty variant: editMessage without the slice of line 123
EditedListKeepsTail(msgs, index, newContent) ==
  [msgs EXCEPT ![index].content = newContent]

\* editMessage: lines 120-123
EditedList(msgs, index, newContent) ==
  SubSeq([msgs EXCEPT ![index].content = newContent], 1, index)

\* editMessage (chatController.ts 105-127)
EditMessage(messageId, newContent) ==
  /\ lastCall' = Call("edit", messageId)
  /\ exported' = NoSession
  /\ LET index == FindIndex(messages, messageId)
     IN IF EditProceeds(messages, index, generating)
          THEN /\ nextId <= MaxId
               /\ GenerateResponse(EditedList(messages, index, newContent), nextId,
                                   "edit", newContent, messageId)
          ELSE UNCHANGED << messages, generating, abortController, calls, nextId >>
  /\ UNCHANGED << model, sessionId, sessionTitle, now, born >>

\* faulty variant: regenerate that keeps the trailing assistant message
DropNothing(msgs) == msgs

\* regenerate: lines 137-140
DropTrailingAssistant(msgs) ==
  IF msgs[Len(msgs)].role = "assistant" THEN SubSeq(msgs, 1, Len(msgs) - 1) ELSE msgs

\* faulty variant: regenerate without `if (this.generating) return`
RegenerateIgnoresBusy(msgs, busy) == Len(msgs) # 0

\* regenerate: lines 133-134, the two early returns
RegenerateProceeds(msgs, busy) == ~busy /\ Len(msgs) # 0

\* regenerate (chatController.ts 129-146)
Regenerate ==
  /\ lastCall' = Call("regenerate", 0)
  /\ exported' = NoSession
  /\ IF RegenerateProceeds(messages, generating)
       THEN LET rest == DropTrailingAssistant(messages)
            IN IF Len(rest) > 0
                 THEN /\ nextId <= MaxId
                      /\ GenerateResponse(rest, nextId, "regenerate", <<>>, 0)
                 ELSE /\ messages' = rest
                      /\ calls' = Retired
                      /\ UNCHANGED << generating, abortController, nextId >>
       ELSE UNCHANGED << messages, generating, abortController, calls, nextId >>
  /\ UNCHANGED << model, sessionId, sessionTitle, now, born >>

\* faulty variant: stop without the `!signal.aborted` test
StopSignalsAgain(handle, aborted) == handle # 0

\* stop: the condition at line 149
StopSignals(handle, aborted) == handle # 0 /\ ~aborted

\* faulty variant: stop that sets the controller idle itself
StopResetsBusy ==
  /\ lastCall' = Call("stop", 0)
  /\ exported' = NoSession
  /\ generating' = FALSE
  /\ IF StopSignals(abortController, SignalAborted(abortController))
          /\ abortController \in DOMAIN calls
       THEN calls' = [calls EXCEPT
                        ![abortController].aborts = @ + 1,
                        ![abortController].stopAt = Len(calls[abortController].delivered),
                        ![abortController].stopPc = calls[abortController].pc]
       ELSE UNCHANGED calls
  /\ UNCHANGED << messages, model, abortController, sessionId, sessionTitle, nextId, now, born >>

\* stop (chatController.ts 148-152)
Stop ==
  /\ lastCall' = Call("stop", 0)
  /\ exported' = NoSession
  /\ IF StopSignals(abortController, SignalAborted(abortController))
          /\ abortController \in DOMAIN calls
       THEN calls' = [calls EXCEPT
                        ![abortController].aborts = @ + 1,
                        ![abortController].stopAt = Len(calls[abortController].delivered),
                        ![abortController].stopPc = calls[abortController].pc]
       ELSE UNCHANGED calls
  /\ UNCHANGED << messages, model, generating, abortController, sessionId,
                  sessionTitle, nextId, now, born >>

\* model names handed to setModel and titles handed to setSessionTitle
ModelNames == { "gemini-2.5-flash", "models/gemini-pro-latest" }
Titles     == { NewChatTitle, << "T" >> }

\* a call with a string argument that is not a message
SetCall(op, value) == [ op |-> op, id |-> 0, text |-> value, files |-> 0 ]

\* faulty variant: a setModel that the open stream follows, as if the request
\* read this.model when it is sent rather than when streamGenerate is called
SetModelReachesStream(m) ==
  /\ lastCall' = SetCall("setModel", m)
  /\ exported' = NoSession
  /\ model' = m
  /\ calls' = [ a \in DOMAIN calls |->
                  IF calls[a].pc = "done" THEN calls[a] ELSE [ calls[a] EXCEPT !.model = m ] ]
  /\ UNCHANGED << messages, generating, abortController, sessionId, sessionTitle,
                  nextId, now, born >>

\* setModel (chatController.ts 33-35)
SetModel(m) ==
  /\ lastCall' = SetCall("setModel", m)
  /\ exported' = NoSession
  /\ model' = m
  /\ UNCHANGED << messages, generating, abortController, sessionId, sessionTitle,
                  calls, nextId, now, born >>

\* setSessionTitle (chatController.ts 162-164)
SetSessionTitle(title) ==
  /\ lastCall' = SetCall("setSessionTitle", title)
  /\ exported' = NoSession
  /\ sessionTitle' = title
  /\ UNCHANGED << messages, model, generating, abortController, sessionId,
                  calls, nextId, now, born >>

\* faulty variant: clear without `if (this.generating) return`
ClearIgnoresBusy ==
  /\ lastCall' = Call("clear", 0)
  /\ exported' = NoSession
  /\ messages' = <<>>
  /\ calls' = Retired
  /\ UNCHANGED << model, generating, abortController, sessionId, sessionTitle,
                  nextId, now, born >>

\* clear (chatController.ts 37-40)
Clear ==
  /\ lastCall' = Call("clear", 0)
  /\ exported' = NoSession
  /\ IF generating
       THEN UNCHANGED << messages, calls >>
       ELSE messages' = <<>> /\ calls' = Retired
  /\ UNCHANGED << model, generating, abortController, sessionId, sessionTitle,
                  nextId, now, born >>

\* faulty variant: loadSession without `this.model = session.model`
LoadSessionKeepsModel(session) ==
  /\ lastCall' = Call("loadSession", session.id)
  /\ exported' = NoSession
  /\ IF generating
       THEN UNCHANGED << sessionId, sessionTitle, messages, calls, born >>
       ELSE /\ sessionId' = session.id
            /\ sessionTitle' = session.title
            /\ messages' = session.messages
            /\ calls' = Retired
            /\ born' = session.createdAt
  /\ UNCHANGED << model, generating, abortController, nextId, now >>

\* loadSession (chatController.ts 177-184)
LoadSession(session) ==
  /\ lastCall' = Call("loadSession", session.id)
  /\ exported' = NoSession
  /\ IF generating
       THEN UNCHANGED << sessionId, sessionTitle, messages, model, calls, born >>
       ELSE /\ sessionId' = session.id
            /\ sessionTitle' = session.title
            /\ messages' = session.messages
            /\ model' = session.model
            /\ calls' = Retired
            /\ born' = session.createdAt
  /\ UNCHANGED << generating, abortController, nextId, now >>

\* faulty variant: createNewSession that also puts the model back to the default
CreateNewSessionResetsModel ==
  /\ lastCall' = Call("createNewSession", 0)
  /\ exported' = NoSession
  /\ IF generating
       THEN UNCHANGED << sessionId, sessionTitle, messages, model, nextId, calls, born >>
       ELSE /\ nextId <= MaxId
            /\ sessionId' = nextId
            /\ nextId' = nextId + 1
            /\ sessionTitle' = NewChatTitle
            /\ messages' = <<>>
            /\ model' = DefaultModel
            /\ calls' = Retired
            /\ born' = now
  /\ UNCHANGED << generating, abortController, now >>

\* createNewSession (chatController.ts 186-192)
CreateNewSession ==
  /\ lastCall' = Call("createNewSession", 0)
  /\ exported' = NoSession
  /\ IF generating
       THEN UNCHANGED << sessionId, sessionTitle, messages, nextId, calls, born >>
       ELSE /\ nextId <= MaxId
            /\ sessionId' = nextId
            /\ nextId' = nextId + 1
            /\ sessionTitle' = NewChatTitle
            /\ messages' = <<>>
            /\ calls' = Retired
            /\ born' = now
  /\ UNCHANGED << model, generating, abortController, now >>

\* the object literal exportSession returns (chatController.ts 167-174);
\* t is the value of Date.now()
ExportedSession(t) ==
  [ id        |-> sessionId,
    title     |-> sessionTitle,
    messages  |-> messages,
    model     |-> model,
    createdAt |-> IF Len(messages) > 0 THEN messages[1].createdAt ELSE t,
    updatedAt |-> t ]

\* exportSession (chatController.ts 166-175)
ExportSession ==
  /\ lastCall' = Call("exportSession", 0)
  /\ exported' = ExportedSession(now)
  /\ UNCHANGED << messages, model, generating, abortController, sessionId,
                  sessionTitle, calls, nextId, now, born >>

\* A session object returned by exportSession and kept by the caller. Its
\* messages property is this.messages itself (line 170), no copy: the array and
\* the message objects in it are those of the controller. A message object is
\* made once, at line 47 or 93, under a fresh id, and never copied, so the entry
\* of the kept array with a given id is the object the controller knows under
\* that id; the controller assigns new arrays to this.messages (lines 54, 70,
\* 100, 123, 139) and never changes one in place.
\* the kept session after `content` was assigned to the message object `id`
WithContent(session, id, content) ==
  [ session EXCEPT !.messages =
      [ k \in 1..Len(session.messages) |->
          IF session.messages[k].id = id
            THEN [ session.messages[k] EXCEPT !.content = content ]
            ELSE session.messages[k] ] ]

\* exportSession by a caller that keeps the session it gets
ExportKept ==
  /\ ExportSession
  /\ held' = exported'
  /\ UNCHANGED << ui, storage, setup, titleCall, kept, stops >>

\* editMessage seen from the kept session: line 120 assigns to the object
EditKept(messageId, newContent) ==
  /\ EditMessage(messageId, newContent)
  /\ held' = IF EditProceeds(messages, FindIndex(messages, messageId), generating)
               THEN WithContent(held, messageId, newContent)
               ELSE held
  /\ UNCHANGED << ui, storage, setup, titleCall, kept, stops >>

\* a chunk seen from the kept session: line 69 assigns to assistantMsg
ChunkKept(a, d) ==
  /\ Chunk(a, d)
  /\ held' = IF d # <<>> THEN WithContent(held, a, calls'[a].msg.content) ELSE held
  /\ UNCHANGED << ui, storage, setup, titleCall, kept, stops >>

\* the clock Date.now() reads advances between two steps of the program
Tick ==
  /\ now < MaxTime
  /\ now' = now + 1
  /\ UNCHANGED << messages, model, generating, abortController, sessionId,
                  sessionTitle, calls, nextId, lastCall, exported, born >>

\* ---------------------------------------------------------------- chat history
\* faulty variant: `cleaned.length < 50`
GenerateTitleCutsAtLimit(firstMessage) ==
  LET cleaned == Trim(firstMessage)
  IN IF Len(cleaned) < TitleLimit
       THEN cleaned
       ELSE SubSeq(cleaned, 1, TitleLimit) \o Ellipsis

\* generateTitle (chatHistory.ts 5-11); substring(0, 50) of a longer string is
\* its first 50 characters
GenerateTitle(firstMessage) ==
  LET cleaned == Trim(firstMessage)
  IN IF Len(cleaned) <= TitleLimit
       THEN cleaned
       ELSE SubSeq(cleaned, 1, TitleLimit) \o Ellipsis

\* one call generateTitle(titleCall.text)
CallGenerateTitle ==
  /\ ~titleCall.made
  /\ titleCall' = [ titleCall EXCEPT !.title = GenerateTitle(titleCall.text), !.made = TRUE ]
  /\ UNCHANGED << messages, model, generating, abortController, sessionId, sessionTitle,
                  calls, nextId, now, lastCall, exported, born, ui, storage, setup, kept,
                  held, stops >>

\* sorted is in descending order of updatedAt; s goes behind every element that
\* is at least as recent, as a stable sort places it
RECURSIVE InsertByRecency(_, _)
InsertByRecency(sorted, s) ==
  IF sorted = <<>> \/ Head(sorted).updatedAt < s.updatedAt
    THEN << s >> \o sorted
    ELSE << Head(sorted) >> \o InsertByRecency(Tail(sorted), s)

\* sessions.sort((a, b) => b.updatedAt - a.updatedAt)
RECURSIVE SortByRecency(_)
SortByRecency(sessions) ==
  IF sessions = <<>>
    THEN <<>>
    ELSE InsertByRecency(SortByRecency(SubSeq(sessions, 1, Len(sessions) - 1)),
                         sessions[Len(sessions)])

\* faulty variant: loadChatSessions without the sort of line 41
LoadChatSessionsUnsorted(stored) == stored

\* loadChatSessions (chatHistory.ts 32-46); stored is the parsed value of the key
LoadChatSessions(stored) == SortByRecency(stored)

\* faulty variant: saveChatSession without the findIndex, which always pushes
SaveChatSessionAppends(stored, session) == Append(LoadChatSessions(stored), session)

\* faulty variant: saveChatSession that leaves a session already stored under
\* the id as it is
SaveChatSessionOnce(stored, session) ==
  LET sessions == LoadChatSessions(stored)
  IN IF FindIndex(sessions, session.id) > 0 THEN sessions ELSE Append(sessions, session)

\* saveChatSession (chatHistory.ts 13-30): the value written to the key
SaveChatSession(stored, session) ==
  LET sessions == LoadChatSessions(stored)
      index == FindIndex(sessions, session.id)
  IN IF index > 0 THEN [ sessions EXCEPT ![index] = session ]
                  ELSE Append(sessions, session)

\* deleteChatSession (chatHistory.ts 48-56): the value written to the key
DeleteChatSession(stored, id) ==
  SelectSeq(LoadChatSessions(stored), LAMBDA x : x.id # id)

\* the bookkeeping k after a save and after a deletion
KeptWith(k, session) ==
  [ i \in DOMAIN k \cup { session.id } |-> IF i = session.id THEN session ELSE k[i] ]
KeptWithout(k, id) == [ i \in DOMAIN k \ { id } |-> k[i] ]

\* a caller saves a session under one of the ids at the present time
HistorySave(id) ==
  LET session == [ id |-> id, title |-> NewChatTitle, messages |-> <<>>, model |-> PageModel,
                   createdAt |-> 0, updatedAt |-> now ]
  IN /\ storage' = [ storage EXCEPT !.sessions = SaveChatSession(@, session) ]
     /\ kept' = KeptWith(kept, session)
     /\ lastCall' = Call("saveChatSession", id)
     /\ UNCHANGED << messages, model, generating, abortController, sessionId, sessionTitle,
                     calls, nextId, now, exported, born, ui, setup, titleCall, held, stops >>

\* a caller deletes the session of one of the ids
HistoryDelete(id) ==
  /\ storage' = [ storage EXCEPT !.sessions = DeleteChatSession(@, id) ]
  /\ kept' = KeptWithout(kept, id)
  /\ lastCall' = Call("deleteChatSession", id)
  /\ UNCHANGED << messages, model, generating, abortController, sessionId, sessionTitle,
                  calls, nextId, now, exported, born, ui, setup, titleCall, held, stops >>

\* ---------------------------------------------------------------- custom models
\* String.prototype.startsWith and includes, Array.prototype.includes
StartsWith(str, prefix) ==
  Len(str) >= Len(prefix) /\ SubSeq(str, 1, Len(prefix)) = prefix
Includes(str, part) ==
  \E k \in 1..(Len(str) - Len(part) + 1) : SubSeq(str, k, k + Len(part) - 1) = part
Has(list, x) == \E k \in 1..Len(list) : list[k] = x

\* addCustomModel (modelStorage.ts 26-32): the value of the key afterwards
AddCustomModel(stored, m) ==
  IF ~Has(stored, m) /\ ~Has(DEFAULT_MODELS, m) THEN Append(stored, m) ELSE stored

\* removeCustomModel (modelStorage.ts 34-38): the value of the key afterwards
RemoveCustomModel(stored, m) == SelectSeq(stored, LAMBDA x : x # m)

\* handleAddModel: the four early returns (SetupScreen.svelte 246-267)
AddModelAccepted(m, customModels) ==
  /\ m # <<>>
  /\ StartsWith(m, ModelsPrefix)
  /\ ~Has(DEFAULT_MODELS, m)
  /\ ~Has(customModels, m)

\* what is framed by every step of the settings dialog
notSetup == << messages, model, generating, abortController, sessionId, sessionTitle,
              calls, nextId, now, exported, born, ui, titleCall, kept, held, stops >>

\* handleAddModel (SetupScreen.svelte 244-273) with newModelInput = input
HandleAddModel(input) ==
  LET m == Trim(input)
  IN /\ lastCall' = [ op |-> "handleAddModel", id |-> 0, text |-> input, files |-> 0 ]
     /\ IF AddModelAccepted(m, setup.customModels)
          THEN /\ storage' = [ storage EXCEPT !.customModels = AddCustomModel(@, m) ]
               /\ setup' = [ setup EXCEPT !.customModels = storage'.customModels ]
          ELSE UNCHANGED << storage, setup >>
     /\ UNCHANGED notSetup

\* handleRemoveModel (SetupScreen.svelte 275-280), the question confirmed
HandleRemoveModel(m) ==
  /\ lastCall' = [ op |-> "handleRemoveModel", id |-> 0, text |-> m, files |-> 0 ]
  /\ storage' = [ storage EXCEPT !.customModels = RemoveCustomModel(@, m) ]
  /\ setup' = [ setup EXCEPT !.customModels = storage'.customModels ]
  /\ UNCHANGED notSetup

\* handleBrowseModels (SetupScreen.svelte 282-312), listModels resolving with listed
HandleBrowseModels(listed) ==
  LET allAdded == DEFAULT_MODELS \o setup.customModels
  IN /\ lastCall' = [ op |-> "handleBrowseModels", id |-> 0, text |-> <<>>, files |-> 0 ]
     /\ setup' = [ setup EXCEPT !.availableModels =
                     SelectSeq(listed, LAMBDA x : Includes(x, Gemini) /\ ~Has(allAdded, x)) ]
     /\ UNCHANGED storage
     /\ UNCHANGED notSetup

\* handleSelectModel (SetupScreen.svelte 314-322)
HandleSelectModel(m) ==
  /\ lastCall' = [ op |-> "handleSelectModel", id |-> 0, text |-> m, files |-> 0 ]
  /\ storage' = [ storage EXCEPT !.customModels = AddCustomModel(@, m) ]
  /\ setup' = [ customModels |-> storage'.customModels,
                availableModels |-> SelectSeq(setup.availableModels, LAMBDA x : x # m) ]
  /\ UNCHANGED notSetup

\* ---------------------------------------------------------------- the page
\* the persisted session with id `id`, and the ids persisted
StoredIds(stored) == { stored[k].id : k \in 1..Len(stored) }
StoredById(stored, id) == stored[CHOOSE k \in 1..Len(stored) : stored[k].id = id]

\* update (+page.svelte 83-85): the page's copy of the list and of the busy flag
Update(page, next, gen) == [ page EXCEPT !.messages = next, !.generating = gen ]

\* messages.find((m) => m.role === "user") as an index, 0 when there is none
FirstUser(msgs) ==
  IF \E k \in 1..Len(msgs) : msgs[k].role = "user"
    THEN CHOOSE k \in 1..Len(msgs) :
           msgs[k].role = "user" /\ \A j \in 1..(k - 1) : msgs[j].role # "user"
    ELSE 0

\* faulty variant: autoSave without the test `session.title === "New Chat"`
DerivesTitleAlways(title, shown) == Len(shown) > 0 /\ FirstUser(shown) # 0

\* autoSave: the conditions at lines 98 and 100
DerivesTitle(title, shown) ==
  title = NewChatTitle /\ Len(shown) > 0 /\ FirstUser(shown) # 0

\* autoSave (+page.svelte 94-105): the session handed to saveChatSession, made
\* at the present time; shown is the list of the page
AutoSavedSession(shown) ==
  LET session == ExportedSession(now)
  IN IF DerivesTitle(session.title, shown)
       THEN [ session EXCEPT !.title = GenerateTitle(shown[FirstUser(shown)].content) ]
       ELSE session

\* the call of a page handler that returned before it reached the controller
PageCall(op, id, text) == [ op |-> op, id |-> id, text |-> text, files |-> 0 ]

\* send of the page (+page.svelte 205-231) with input in the text box, no
\* attachment pending and an API key configured; update runs inside
\* controller.send up to its first await
PageSend(input) ==
  LET text == Trim(input)
  IN IF text = <<>> \/ ui.generating
       THEN /\ lastCall' = PageCall("pageSend", 0, input)
            /\ exported' = NoSession
            /\ UNCHANGED << messages, model, generating, abortController, sessionId,
                            sessionTitle, calls, nextId, now, born, outer >>
       ELSE /\ Send(text, 0)
            /\ ui' = IF SendProceeds(text, generating) THEN Update(ui, messages', TRUE) ELSE ui
            /\ UNCHANGED << storage, setup, titleCall, kept, held, stops >>

\* saveEdit (+page.svelte 353-375) with editingMessageId = id, editContent = content
PageSaveEdit(id, content) ==
  IF Trim(content) = <<>> \/ ui.generating
    THEN /\ lastCall' = PageCall("saveEdit", id, content)
         /\ exported' = NoSession
         /\ UNCHANGED << messages, model, generating, abortController, sessionId,
                         sessionTitle, calls, nextId, now, born, outer >>
    ELSE /\ EditMessage(id, content)
         /\ ui' = IF EditProceeds(messages, FindIndex(messages, id), generating)
                    THEN Update(ui, messages', TRUE)
                    ELSE ui
         /\ UNCHANGED << storage, setup, titleCall, kept, held, stops >>

\* a loop iteration of the stream with update as the observer of onText
PageChunk(a, d) ==
  /\ Chunk(a, d)
  /\ ui' = IF d # <<>> THEN Update(ui, messages', generating) ELSE ui
  /\ UNCHANGED << storage, setup, titleCall, kept, held, stops >>

\* catch / finally with update as the observer: update(this.messages, false)
\* and, the list not being empty, autoSave (+page.svelte 83-112)
PageFinally(a) ==
  /\ FinallyBlock(a)
  /\ IF Len(messages) > 0
       THEN LET session == AutoSavedSession(messages)
            IN /\ sessionTitle' = session.title
               /\ storage' = [ storage EXCEPT !.sessions = SaveChatSession(@, session) ]
               /\ kept' = KeptWith(kept, session)
               /\ ui' = [ Update(ui, messages, FALSE) EXCEPT
                            !.currentSessionId = session.id,
                            !.chatSessions = LoadChatSessions(storage'.sessions) ]
       ELSE /\ ui' = Update(ui, messages, FALSE)
            /\ UNCHANGED << sessionTitle, storage, kept >>
  /\ UNCHANGED << setup, titleCall, held, stops >>

\* faulty variant: the autoSave() that once stood in switchChat (see the
\* comment at lines 280-282)
StoredAfterSwitchWithAutoSave(stored, session) == SaveChatSession(stored, session)

\* switchChat saves nothing: the stored sessions after it left `session`
StoredAfterSwitch(stored, session) == stored

\* switchChat (+page.svelte 276-293)
SwitchChat(id) ==
  /\ lastCall' = Call("switchChat", id)
  /\ exported' = NoSession
  /\ LET index == FindIndex(ui.chatSessions, id)
     IN IF ui.generating \/ id = ui.currentSessionId \/ index = 0
          THEN UNCHANGED << messages, model, sessionId, sessionTitle, calls, born,
                           ui, storage, kept >>
          ELSE LET session == ui.chatSessions[index]
               IN /\ IF generating
                       THEN UNCHANGED << sessionId, sessionTitle, messages, calls, born >>
                       ELSE /\ sessionId' = session.id
                            /\ sessionTitle' = session.title
                            /\ messages' = session.messages
                            /\ calls' = Retired
                            /\ born' = session.createdAt
                  /\ model' = session.model
                  /\ ui' = [ ui EXCEPT !.messages = messages',
                                       !.currentSessionId = id,
                                       !.model = session.model ]
                  /\ storage' = [ storage EXCEPT !.sessions =
                                    StoredAfterSwitch(@, AutoSavedSession(ui.messages)) ]
                  /\ kept' = kept
  /\ UNCHANGED << generating, abortController, nextId, now, setup, titleCall, held, stops >>

\* createNewChat (+page.svelte 260-274) run on the stored sessions `stored`
\* (bookkeeping k) with `chats` in the sidebar
CreateNewChatOn(stored, k, chats) ==
  IF ui.generating
    THEN /\ storage' = [ storage EXCEPT !.sessions = stored ]
         /\ kept' = k
         /\ ui' = [ ui EXCEPT !.chatSessions = chats ]
         /\ UNCHANGED << messages, model, sessionId, sessionTitle, calls, nextId, born >>
    ELSE LET save    == Len(ui.messages) > 0
             session == AutoSavedSession(ui.messages)
             stored2 == IF save THEN SaveChatSession(stored, session) ELSE stored
         IN /\ storage' = [ storage EXCEPT !.sessions = stored2 ]
            /\ kept' = IF save THEN KeptWith(k, session) ELSE k
            /\ IF generating
                 THEN /\ sessionTitle' = IF save THEN session.title ELSE sessionTitle
                      /\ UNCHANGED << sessionId, messages, nextId, calls, born >>
                 ELSE /\ nextId <= MaxId
                      /\ sessionId' = nextId
                      /\ nextId' = nextId + 1
                      /\ sessionTitle' = NewChatTitle
                      /\ messages' = <<>>
                      /\ calls' = Retired
                      /\ born' = now
            /\ model' = PageModel
            /\ ui' = [ messages         |-> <<>>,
                       generating       |-> ui.generating,
                       currentSessionId |-> sessionId',
                       chatSessions     |-> IF save THEN LoadChatSessions(stored2) ELSE chats,
                       model            |-> PageModel ]

\* createNewChat called from the sidebar
CreateNewChat ==
  /\ lastCall' = Call("createNewChat", 0)
  /\ exported' = NoSession
  /\ CreateNewChatOn(storage.sessions, kept, ui.chatSessions)
  /\ UNCHANGED << generating, abortController, now, setup, titleCall, held, stops >>

\* deleteChat (+page.svelte 295-303)
DeleteChat(id) ==
  /\ lastCall' = Call("deleteChat", id)
  /\ exported' = NoSession
  /\ LET stored == DeleteChatSession(storage.sessions, id)
     IN IF id = ui.currentSessionId
          THEN CreateNewChatOn(stored, KeptWithout(kept, id), LoadChatSessions(stored))
          ELSE /\ storage' = [ storage EXCEPT !.sessions = stored ]
               /\ kept' = KeptWithout(kept, id)
               /\ ui' = [ ui EXCEPT !.chatSessions = LoadChatSessions(stored) ]
               /\ UNCHANGED << messages, model, sessionId, sessionTitle, calls, nextId, born >>
  /\ UNCHANGED << generating, abortController, now, setup, titleCall, held, stops >>

\* ---------------------------------------------------------------- specification
Ids == 1..MaxId

\* ids a caller can name: those of the messages on display and one that matches none
KnownIds == { messages[k].id : k \in 1..Len(messages) } \cup {0}

\* send without attachments; NextSession has the calls that carry some
Next ==
  \/ \E t \in Texts : Send(t, 0) /\ UNCHANGED outer
  \/ \E id \in KnownIds, t \in NewTexts : EditMessage(id, t) /\ UNCHANGED outer
  \/ Regenerate /\ UNCHANGED outer
  \/ Stop /\ UNCHANGED outer
  \/ Clear /\ UNCHANGED outer
  \/ \E s \in SavedSessions : LoadSession(s) /\ UNCHANGED outer
  \/ CreateNewSession /\ UNCHANGED outer
  \/ \E a \in Ids : Connect(a) /\ UNCHANGED outer
  \/ \E a \in Ids : ConnectFail(a) /\ UNCHANGED outer
  \/ \E a \in InFlight : \E d \in Deltas(Len(calls[a].delivered)) : Chunk(a, d) /\ UNCHANGED outer
  \/ \E a \in Ids : StreamEnd(a) /\ UNCHANGED outer
  \/ \E a \in Ids : StreamFail(a) /\ UNCHANGED outer
  \/ \E a \in Ids : Finally(a) /\ UNCHANGED outer

Spec == Init /\ [][Next]_vars

\* Sessions over time: sending with and without attachments, streaming to the
\* end, the session methods, exportSession and the clock.
NextSession ==
  \/ \E t \in Texts, f \in Files : Send(t, f) /\ UNCHANGED outer
  \/ Clear /\ UNCHANGED outer
  \/ \E s \in SavedSessions : LoadSession(s) /\ UNCHANGED outer
  \/ CreateNewSession /\ UNCHANGED outer
  \/ \E a \in Ids : Connect(a) /\ UNCHANGED outer
  \/ \E a \in InFlight : \E d \in Deltas(Len(calls[a].delivered)) : Chunk(a, d) /\ UNCHANGED outer
  \/ \E a \in Ids : StreamEnd(a) /\ UNCHANGED outer
  \/ \E a \in Ids : Finally(a) /\ UNCHANGED outer
  \/ ExportSession /\ UNCHANGED outer
  \/ Tick /\ UNCHANGED outer

SpecSession == Init /\ [][NextSession]_vars

\* generateTitle on its own: any of the texts, then the call
InitTitle ==
  /\ InitController(DefaultModel)
  /\ InitPage
  /\ InitStorage
  /\ InitSetup
  /\ InitAside
  /\ \E t \in TitleTexts : titleCall = [ text |-> t, title |-> <<>>, made |-> FALSE ]

NextTitle == CallGenerateTitle

SpecTitle == InitTitle /\ [][NextTitle]_vars

\* the chat history on its own: saves and deletions under a few ids, over time
HistoryIds == 1..MaxSessions

NextHistory ==
  \/ \E id \in HistoryIds : HistorySave(id)
  \/ \E id \in HistoryIds : HistoryDelete(id)
  \/ Tick /\ UNCHANGED outer

SpecHistory == Init /\ [][NextHistory]_vars

\* the model list of the settings dialog on its own
NextModels ==
  \/ \E input \in TypedModels : HandleAddModel(input)
  \/ \E k \in 1..Len(setup.customModels) : HandleRemoveModel(setup.customModels[k])
  \/ \E listed \in Listings : HandleBrowseModels(listed)
  \/ \E k \in 1..Len(setup.availableModels) : HandleSelectModel(setup.availableModels[k])

SpecModels == Init /\ [][NextModels]_vars

\* Streams of a provider that grounds its replies: chunks with and without sources
NextGrounding ==
  \/ \E t \in Texts : Send(t, 0) /\ UNCHANGED outer
  \/ \E a \in Ids : Connect(a) /\ UNCHANGED outer
  \/ \E a \in InFlight : \E d \in Deltas(Len(calls[a].delivered)) :
        \E g \in Groundings : ChunkWith(a, d, g) /\ UNCHANGED outer
  \/ \E a \in Ids : StreamEnd(a) /\ UNCHANGED outer
  \/ \E a \in Ids : Finally(a) /\ UNCHANGED outer

SpecGrounding == Init /\ [][NextGrounding]_vars

\* The page over the controller and the stored history: the handlers of the
\* text box and of the sidebar, the stream with update as observer, the clock.

\* the bookkeeping of the sessions in `stored`, by id
KeptOf(stored) == [ id \in StoredIds(stored) |-> StoredById(stored, id) ]

\* the page after onMount (+page.svelte 21-33, 401-425) with `stored` in
\* localStorage: chatSessions = loadChatSessions(), currentSessionId =
\* controller.getSessionId()
Mounted(stored) ==
  /\ InitController(PageModel)
  /\ storage = [ sessions |-> stored, customModels |-> <<>> ]
  /\ kept = KeptOf(stored)
  /\ ui = [ messages |-> <<>>, generating |-> FALSE, currentSessionId |-> sessionId,
            chatSessions |-> LoadChatSessions(stored), model |-> PageModel ]
  /\ InitSetup
  /\ InitAside
  /\ titleCall = NoTitleCall

\* the first visit: nothing is stored
InitApp == Mounted(<<>>)

\* ids of the sessions in the sidebar and of the messages on the page
ChatIds == { ui.chatSessions[k].id : k \in 1..Len(ui.chatSessions) }
ShownIds == { ui.messages[k].id : k \in 1..Len(ui.messages) }

\* The page between two handlers: a generation either fails while connecting or
\* streams to its end, and the clock advances while no stream is open.
NextPage ==
  \/ \E t \in Texts : PageSend(t)
  \/ \E id \in ShownIds, t \in NewTexts : PageSaveEdit(id, t)
  \/ \E id \in ChatIds : SwitchChat(id)
  \/ CreateNewChat
  \/ \E id \in ChatIds : DeleteChat(id)
  \/ \E a \in Ids : Connect(a) /\ UNCHANGED outer
  \/ \E a \in Ids : ConnectFail(a) /\ UNCHANGED outer
  \/ \E a \in InFlight : \E d \in Deltas(Len(calls[a].delivered)) : PageChunk(a, d)
  \/ \E a \in Ids : StreamEnd(a) /\ UNCHANGED outer
  \/ \E a \in Ids : PageFinally(a)
  \/ ~generating /\ Tick /\ UNCHANGED outer

SpecPage == InitApp /\ [][NextPage]_vars

\* A later visit: a session of an earlier visit is stored when the page is
\* opened; the user sends, lets the reply stream to its end and goes about the
\* sidebar, over time.
InitSidebar == Mounted(<< Saved >>)

NextSidebar ==
  \/ \E t \in Texts : PageSend(t)
  \/ \E id \in ChatIds : SwitchChat(id)
  \/ CreateNewChat
  \/ \E id \in ChatIds : DeleteChat(id)
  \/ \E a \in Ids : Connect(a) /\ UNCHANGED outer
  \/ \E a \in InFlight : \E d \in Deltas(Len(calls[a].delivered)) : PageChunk(a, d)
  \/ \E a \in Ids : StreamEnd(a) /\ UNCHANGED outer
  \/ \E a \in Ids : PageFinally(a)
  \/ ~generating /\ Tick /\ UNCHANGED outer

SpecSidebar == InitSidebar /\ [][NextSidebar]_vars

\* Replies on the page: sends, one after another in the same session, whose
\* generation ends by the end of the stream, by a failure while connecting or
\* streaming, or by stop.
NextReply ==
  \/ \E t \in Texts : PageSend(t)
  \/ Stop /\ UNCHANGED outer
  \/ \E a \in Ids : Connect(a) /\ UNCHANGED outer
  \/ \E a \in Ids : ConnectFail(a) /\ UNCHANGED outer
  \/ \E a \in InFlight : \E d \in Deltas(Len(calls[a].delivered)) : PageChunk(a, d)
  \/ \E a \in Ids : StreamEnd(a) /\ UNCHANGED outer
  \/ \E a \in Ids : StreamFail(a) /\ UNCHANGED outer
  \/ \E a \in Ids : PageFinally(a)

SpecReply == InitApp /\ [][NextReply]_vars

\* Generations to their end: sends and stop, with a transport that does not
\* stay silent forever. A step of the transport resolves the pending await of
\* streamGenerate: the connection is made or fails, or the stream yields a
\* chunk, ends or fails; the finally block follows the return of streamGenerate.
Connecting(a) ==
  \/ Connect(a) /\ UNCHANGED outer
  \/ ConnectFail(a) /\ UNCHANGED outer

Closing(a) ==
  \/ StreamEnd(a) /\ UNCHANGED outer
  \/ StreamFail(a) /\ UNCHANGED outer

NextLive ==
  \/ \E t \in Texts : Send(t, 0) /\ UNCHANGED outer
  \/ Stop /\ UNCHANGED outer
  \/ \E a \in Ids : Connecting(a)
  \/ \E a \in InFlight : \E d \in Deltas(Len(calls[a].delivered)) : Chunk(a, d) /\ UNCHANGED outer
  \/ \E a \in Ids : Closing(a)
  \/ \E a \in Ids : Finally(a) /\ UNCHANGED outer

\* the request is answered or fails; the stream of a response is finite: unless
\* the loop is left before, it ends or fails after some chunks; the finally
\* block runs when streamGenerate has returned
Progress ==
  \A a \in Ids : /\ WF_vars(Connecting(a))
                 /\ WF_vars(Closing(a))
                 /\ WF_vars(Finally(a) /\ UNCHANGED outer)

SpecLive == Init /\ [][NextLive]_vars /\ Progress

\* Generations one after another with stop() calls noted: stops.seen says that
\* stop() was called since the last generation began, stops.before that it had
\* been called before that generation began and after the one before it began.
aside == << ui, storage, setup, titleCall, kept, held >>

\* a method that may begin a generation; one has begun when uid() was called
Noted(method) ==
  /\ method
  /\ stops' = IF nextId' # nextId THEN [ seen |-> FALSE, before |-> stops.seen ] ELSE stops
  /\ UNCHANGED aside

StopNoted == Stop /\ stops' = [ stops EXCEPT !.seen = TRUE ] /\ UNCHANGED aside

NextStops ==
  \/ \E t \in Texts : Noted(Send(t, 0))
  \/ Noted(Regenerate)
  \/ StopNoted
  \/ \E a \in Ids : Connect(a) /\ UNCHANGED outer
  \/ \E a \in Ids : ConnectFail(a) /\ UNCHANGED outer
  \/ \E a \in InFlight : \E d \in Deltas(Len(calls[a].delivered)) : Chunk(a, d) /\ UNCHANGED outer
  \/ \E a \in Ids : StreamEnd(a) /\ UNCHANGED outer
  \/ \E a \in Ids : StreamFail(a) /\ UNCHANGED outer
  \/ \E a \in Ids : Finally(a) /\ UNCHANGED outer

SpecStops == Init /\ [][NextStops]_vars

\* Streams of a provider that answers and does not fail, with chunks that carry
\* text, chunks that carry none and chunks that are malformed
NextFragments ==
  \/ \E t \in Texts : Send(t, 0) /\ UNCHANGED outer
  \/ \E a \in Ids : Connect(a) /\ UNCHANGED outer
  \/ \E a \in InFlight : \E d \in Deltas(Len(calls[a].delivered)) : Chunk(a, d) /\ UNCHANGED outer
  \/ \E a \in Ids : MalformedChunk(a) /\ UNCHANGED outer
  \/ \E a \in Ids : StreamEnd(a) /\ UNCHANGED outer
  \/ \E a \in Ids : Finally(a) /\ UNCHANGED outer

SpecFragments == Init /\ [][NextFragments]_vars

\* The mutators of the controller, called while idle and during a generation
NextSetters ==
  \/ \E t \in Texts : Send(t, 0) /\ UNCHANGED outer
  \/ \E m \in ModelNames : SetModel(m) /\ UNCHANGED outer
  \/ \E t \in Titles : SetSessionTitle(t) /\ UNCHANGED outer
  \/ \E a \in Ids : Connect(a) /\ UNCHANGED outer
  \/ \E a \in InFlight : \E d \in Deltas(Len(calls[a].delivered)) : Chunk(a, d) /\ UNCHANGED outer
  \/ \E a \in Ids : StreamEnd(a) /\ UNCHANGED outer
  \/ \E a \in Ids : Finally(a) /\ UNCHANGED outer

SpecSetters == Init /\ [][NextSetters]_vars

\* A controller that never loads a session: every list it holds was built by
\* its own methods
NextOwn ==
  \/ \E t \in Texts : Send(t, 0) /\ UNCHANGED outer
  \/ \E id \in KnownIds, t \in NewTexts : EditMessage(id, t) /\ UNCHANGED outer
  \/ Regenerate /\ UNCHANGED outer
  \/ Stop /\ UNCHANGED outer
  \/ Clear /\ UNCHANGED outer
  \/ CreateNewSession /\ UNCHANGED outer
  \/ \E a \in Ids : Connect(a) /\ UNCHANGED outer
  \/ \E a \in Ids : ConnectFail(a) /\ UNCHANGED outer
  \/ \E a \in InFlight : \E d \in Deltas(Len(calls[a].delivered)) : Chunk(a, d) /\ UNCHANGED outer
  \/ \E a \in Ids : StreamEnd(a) /\ UNCHANGED outer
  \/ \E a \in Ids : StreamFail(a) /\ UNCHANGED outer
  \/ \E a \in Ids : Finally(a) /\ UNCHANGED outer

SpecOwn == Init /\ [][NextOwn]_vars

\* A caller that keeps exported sessions, with a controller that loads none
NextKept ==
  \/ \E t \in Texts : Send(t, 0) /\ UNCHANGED outer
  \/ \E id \in KnownIds, t \in NewTexts : EditKept(id, t)
  \/ Regenerate /\ UNCHANGED outer
  \/ Clear /\ UNCHANGED outer
  \/ CreateNewSession /\ UNCHANGED outer
  \/ ExportKept
  \/ \E a \in Ids : Connect(a) /\ UNCHANGED outer
  \/ \E a \in InFlight : \E d \in Deltas(Len(calls[a].delivered)) : ChunkKept(a, d)
  \/ \E a \in Ids : StreamEnd(a) /\ UNCHANGED outer
  \/ \E a \in Ids : Finally(a) /\ UNCHANGED outer

SpecKept == Init /\ [][NextKept]_vars

\* ---------------------------------------------------------------- properties
Last(msgs) == msgs[Len(msgs)]

\* the fields of the controller, without the bookkeeping of the model
ctrl == << messages, model, generating, abortController, sessionId, sessionTitle >>

\* cancellation handles that exist: the one the controller holds and the one
\* each unfinished generateResponse passed to streamGenerate
LiveHandles == InFlight \cup ({abortController} \ {0})

\* the generate procedure of assistant message a ends in this step
Ends(a) ==
  /\ a \in DOMAIN calls /\ calls[a].pc = "settled"
  /\ a \in DOMAIN calls' /\ calls'[a].pc = "done"

\* indices of the observer calls that carried busy = false
Finals(obs) == { k \in 1..Len(obs) : ~obs[k].busy }

\* C1: every send accepted on an idle controller with text that is not blank
\* leaves the list as it was, followed by exactly one user message carrying the
\* text and exactly one assistant message, in that order; once the stream has
\* ended the assistant message holds the fragments delivered before the end,
\* concatenated in order of delivery.
C1_SendAppendsUserThenAssistant ==
  \A a \in DOMAIN calls :
    LET c == calls[a]
        n == Len(c.pre)
    IN (c.op = "send" /\ ~c.preBusy /\ Trim(c.text) # <<>>) =>
         /\ Len(messages) = n + 2
         /\ SubSeq(messages, 1, n) = c.pre
         /\ messages[n + 1].role = "user"
         /\ messages[n + 1].content = c.text
         /\ messages[n + 2].role = "assistant"
         /\ messages[n + 2].id = a
         /\ c.pc \in {"settled", "done"} =>
               messages[n + 2].content = Flatten(c.delivered)

\* a second send, after a first exchange, has finished with two fragments
C1_Witness ==
  \E a \in DOMAIN calls :
    /\ calls[a].op = "send" /\ calls[a].pc = "done"
    /\ Len(calls[a].pre) = 2 /\ calls[a].pre[1].role = "user"
    /\ Len(calls[a].delivered) = 2
    /\ Last(messages).content = <<"a", "b", "c">>

\* C2: whatever send, editMessage and regenerate calls are made, also while an
\* earlier call is suspended on its stream, at most one streaming call is in
\* flight and at most one cancellation handle exists.
C2_OneStreamOneHandle ==
  /\ Cardinality(InFlight) <= 1
  /\ Cardinality(LiveHandles) <= 1

\* regenerate was called while a stream that had delivered a fragment was in flight
C2_Witness ==
  /\ lastCall.op = "regenerate"
  /\ \E a \in InFlight : calls[a].pc = "streaming" /\ Len(calls[a].delivered) = 1

\* C3: every generateResponse invocation ends with exactly one observer call
\* that carries busy = false, that call is its last one (no call with
\* busy = true follows), and this holds on success, failure and cancellation.
C3_OneFinalObserverCall ==
  \A a \in DOMAIN calls :
    LET c == calls[a]
    IN IF c.pc = "done"
         THEN /\ c.outcome \in {"success", "error", "cancel"}
              /\ Finals(c.obs) = { Len(c.obs) }
         ELSE Finals(c.obs) = {}

\* a generation cancelled by stop() has finished after a fragment
C3_Witness ==
  \E a \in DOMAIN calls :
    /\ calls[a].pc = "done" /\ calls[a].outcome = "cancel"
    /\ Len(calls[a].obs) = 3

\* C4: when the transport fails, before the first fragment or after some, the
\* failure does not leave generateResponse, the assistant message stays at the
\* tail with exactly the fragments delivered before the failure, and the
\* controller is idle again: not busy, no cancellation handle.
C4_FailureKeepsPartialContent ==
  \A a \in DOMAIN calls :
    LET c == calls[a]
    IN (c.pc = "done" /\ c.outcome = "error") =>
         /\ ~c.escaped
         /\ Len(messages) > 0
         /\ Last(messages).id = a
         /\ Last(messages).content = Flatten(c.delivered)
         /\ ~generating
         /\ abortController = 0
         /\ ~Last(c.obs).busy

\* the stream failed after one fragment and the generation has finished
C4_Witness ==
  \E a \in DOMAIN calls :
    /\ calls[a].pc = "done" /\ calls[a].outcome = "error"
    /\ calls[a].delivered = << <<"a">> >>
    /\ Last(messages).content = <<"a">>

\* C5: after a stop() made while the stream is being read no fragment the transport still produces is appended to
\* the assistant message or shown to the observer: the content stays the
\* concatenation of the fragments delivered before stop(), and the final
\* observer call carries busy = false.
C5_NoFragmentAfterStop ==
  \A a \in DOMAIN calls :
    LET c == calls[a]
        atStop == Flatten(SubSeq(c.delivered, 1, c.stopAt))
    IN c.stopPc = "streaming" =>
         /\ c.msg.content = atStop
         /\ Last(messages).id = a => Last(messages).content = atStop
         /\ \A k \in 1..Len(c.obs) :
              Len(Last(c.obs[k].messages).content) <= Len(atStop)
         /\ c.pc = "done" => ~Last(c.obs).busy

\* C6: send, editMessage and regenerate called while the controller is
\* generating change nothing: list, busy flag, cancellation handle, session id
\* and title stay, no stream is opened and no observer is called; and no
\* generation ever stems from a call made while generating (nothing is queued).
C6_BusyCallsAreNoOps ==
  [][ /\ (generating /\ lastCall'.op \in {"send", "edit", "regenerate"}) =>
          UNCHANGED << ctrl, calls, nextId >>
      /\ \A a \in DOMAIN calls' : ~calls'[a].preBusy ]_vars

\* send was called while a stream that had delivered a fragment was in flight
C6_Witness ==
  /\ lastCall.op = "send" /\ lastCall.text = <<"h">>
  /\ generating
  /\ \E a \in InFlight : calls[a].pc = "streaming" /\ Len(calls[a].delivered) = 1

\* C7: stop() signals a cancellation handle at most once per generation; it
\* never changes a field of the controller, and a stop() that finds no handle
\* or a handle already signalled changes nothing at all.
C7_StopSignalsOnce ==
  [][ /\ \A a \in DOMAIN calls' : calls'[a].aborts <= 1
      /\ lastCall'.op = "stop" =>
           /\ UNCHANGED << ctrl, nextId >>
           /\ (abortController = 0 \/ SignalAborted(abortController)) =>
                 UNCHANGED calls ]_vars

\* stop() was called again in a generation that it had already cancelled
C7_Witness ==
  /\ lastCall.op = "stop"
  /\ \E a \in InFlight :
       /\ calls[a].aborts = 1
       /\ calls[a].stopAt < Len(calls[a].delivered)

\* C8: editMessage accepted for the user message at index i replaces that
\* message's content, keeps the messages before it, discards those after it
\* and appends a new assistant message, so the list has i + 1 messages
\* (1-based i) with the assistant message at the tail.
C8_EditTruncatesThenGenerates ==
  \A a \in DOMAIN calls :
    LET c == calls[a]
        i == FindIndex(c.pre, c.target)
    IN (c.op = "edit" /\ ~c.preBusy) =>
         /\ i # 0
         /\ c.pre[i].role = "user"
         /\ Len(messages) = i + 1
         /\ SubSeq(messages, 1, i - 1) = SubSeq(c.pre, 1, i - 1)
         /\ messages[i] = [c.pre[i] EXCEPT !.content = c.text]
         /\ messages[i + 1].id = a
         /\ messages[i + 1].role = "assistant"
         /\ \A k \in 1..Len(c.pre) : c.pre[k].id # a

\* the first message of a list of two was edited and its reply regenerated
C8_Witness ==
  \E a \in DOMAIN calls :
    /\ calls[a].op = "edit" /\ calls[a].pc = "done"
    /\ Len(calls[a].pre) = 2 /\ FindIndex(calls[a].pre, calls[a].target) = 1
    /\ messages[1].content = <<"e">>
    /\ Len(messages) = 2

\* C9: editMessage with an id that matches no message or matches an assistant
\* message changes nothing: the list, the busy flag and every other field
\* stay, no stream is opened and no observer is called.
C9_EditOfUnknownOrAssistantIsNoOp ==
  [][ ( /\ lastCall'.op = "edit"
        /\ LET i == FindIndex(messages, lastCall'.id)
           IN i = 0 \/ messages[i].role = "assistant" ) =>
       UNCHANGED << ctrl, calls, nextId >> ]_vars

\* editMessage was called on an idle controller with the id of an assistant message
C9_Witness ==
  /\ lastCall.op = "edit"
  /\ ~generating
  /\ LET i == FindIndex(messages, lastCall.id)
     IN i # 0 /\ messages[i].role = "assistant"

\* C10: regenerate accepted on a list that ends with an assistant message and
\* has a message before it removes that one message, keeps every earlier
\* message and appends an assistant message with a new id, so the list is as
\* long as before the call.
C10_RegenerateReplacesTail ==
  \A a \in DOMAIN calls :
    LET c == calls[a]
        n == Len(c.pre)
    IN (c.op = "regenerate" /\ ~c.preBusy /\ n >= 2 /\ Last(c.pre).role = "assistant") =>
         /\ Len(messages) = n
         /\ SubSeq(messages, 1, n - 1) = SubSeq(c.pre, 1, n - 1)
         /\ Last(messages).id = a
         /\ Last(messages).id # Last(c.pre).id
         /\ Last(messages).role = "assistant"
         /\ Last(messages).content = Flatten(c.delivered)

\* the reply of an exchange was regenerated and the new stream has ended
C10_Witness ==
  \E a \in DOMAIN calls :
    /\ calls[a].op = "regenerate" /\ calls[a].pc = "done"
    /\ Len(calls[a].pre) = 2 /\ Last(calls[a].pre).role = "assistant"
    /\ Last(calls[a].pre).content # Last(messages).content

\* C11: a regenerate that starts no generation (the list is empty, or holds
\* nothing but one assistant message) changes nothing: the message list is the
\* same after the call as before it, busy stays false and no observer call is made.
C11_RegenerateWithoutGenerationIsNoOp ==
  [][ ( /\ lastCall'.op = "regenerate"
        /\ ~generating
        /\ \/ Len(messages) = 0
           \/ Len(messages) = 1 /\ messages[1].role = "assistant" )
      => /\ messages' = messages
         /\ generating' = FALSE
         /\ DOMAIN calls' \subseteq DOMAIN calls ]_vars

\* C12: send on an idle controller with blank text and at least one attachment
\* appends a user message and starts a generation; send on an idle controller
\* changes nothing only when the text is blank and there is no attachment.
C12_SendAcceptsAttachmentsAlone ==
  [][ (lastCall'.op = "send" /\ ~generating) =>
        IF Trim(lastCall'.text) = <<>> /\ lastCall'.files = 0
          THEN UNCHANGED << ctrl, calls, nextId >>
          ELSE /\ Len(messages') = Len(messages) + 2
               /\ messages'[Len(messages) + 1].role = "user"
               /\ messages'[Len(messages) + 1].content = lastCall'.text
               /\ generating' ]_vars

\* C13 as stated: between the steps of the program and inside every observer
\* call the controller is either Idle (not busy, no cancellation handle) or
\* Generating (busy, cancellation handle present).
C13_IdleOrGeneratingEverywhere ==
  /\ generating <=> abortController # 0
  /\ \A a \in DOMAIN calls :
       \A k \in 1..Len(calls[a].obs) : calls[a].obs[k].busy <=> calls[a].obs[k].handle

\* C13, amended: between the steps of the program the controller is either Idle
\* or Generating, and so it is inside every observer call but the first of a
\* generation, which runs with busy=true before the cancellation handle exists.
C13_IdleOrGeneratingButFirstCall ==
  /\ generating <=> abortController # 0
  /\ \A a \in DOMAIN calls :
       \A k \in 1..Len(calls[a].obs) :
         IF k = 1
           THEN calls[a].obs[k].busy /\ ~calls[a].obs[k].handle
           ELSE calls[a].obs[k].busy <=> calls[a].obs[k].handle

\* a generation has run to its end and its observer saw the placeholder, a
\* fragment and the final call
C13_Witness ==
  \E a \in DOMAIN calls :
    /\ calls[a].pc = "done"
    /\ Len(calls[a].obs) >= 3
    /\ ~generating /\ abortController = 0

\* C14: while the controller is Generating the assistant message in progress
\* is the last element of the list, and from the start of a generation to its
\* end the list keeps its length and every other message is what it was when
\* the generation started: fragments change the content of the last message only.
C14_OnlyTheTailChanges ==
  /\ generating =>
       /\ abortController \in InFlight
       /\ Len(messages) > 0
       /\ Last(messages).id = abortController
  /\ \A a \in DOMAIN calls :
       LET c == calls[a]
           n == Len(c.sent)
       IN /\ Len(messages) = n + 1
          /\ SubSeq(messages, 1, n) = c.sent
          /\ Last(messages).id = a
          /\ Last(messages).role = "assistant"
          /\ Last(messages).createdAt = c.msg.createdAt
          /\ Last(messages).content = Flatten(c.delivered)

\* the second exchange of a conversation is streaming: the list holds an earlier
\* assistant message whose content differs from that of the message in progress
C14_Witness ==
  \E a \in InFlight :
    /\ generating
    /\ calls[a].delivered # <<>>
    /\ \E k \in 1..Len(calls[a].sent) :
         /\ calls[a].sent[k].role = "assistant"
         /\ calls[a].sent[k].content # Last(messages).content

\* C15: the observer calls of one generateResponse come in this order: one with
\* busy=true and the empty assistant placeholder at the tail; one with busy=true
\* for each fragment with text, showing the content of the call before extended
\* by that fragment; and, once the invocation is over, one with busy=false. No
\* call shows a content that is not an extension of the content of the call before.
C15_ObserverCallsInOrder ==
  \A a \in DOMAIN calls :
    LET c == calls[a]
        shown(k) == Last(c.obs[k].messages)
        d == Len(c.delivered)
    IN /\ Len(c.obs) = 1 + d + (IF c.pc = "done" THEN 1 ELSE 0)
       /\ c.obs[1].busy
       /\ shown(1).id = a /\ shown(1).role = "assistant" /\ shown(1).content = <<>>
       /\ \A k \in 1..d :
            /\ c.obs[k + 1].busy
            /\ shown(k + 1).id = a
            /\ shown(k + 1).content = shown(k).content \o c.delivered[k]
       /\ c.pc = "done" =>
            /\ ~c.obs[d + 2].busy
            /\ shown(d + 2).id = a
            /\ shown(d + 2).content = shown(d + 1).content

\* a generation that delivered two fragments is over: its observer was called
\* four times
C15_Witness ==
  \E a \in DOMAIN calls :
    /\ calls[a].pc = "done"
    /\ Len(calls[a].delivered) = 2
    /\ Len(calls[a].obs) = 4

\* the methods that replace or empty the session
SessionCalls == { "clear", "loadSession", "createNewSession" }

\* C19: createNewSession on an idle controller sets a session id that was never
\* handed out before and differs from the previous one, sets the title to
\* "New Chat", empties the message list and leaves the model as it was.
C19_CreateNewSessionResets ==
  [][ (lastCall'.op = "createNewSession" /\ ~generating) =>
        /\ sessionId' # sessionId
        /\ sessionId' >= nextId
        /\ sessionId' \notin { s.id : s \in SavedSessions }
        /\ sessionTitle' = << "N", "e", "w", " ", "C", "h", "a", "t" >>
        /\ messages' = <<>>
        /\ model' = model
        /\ generating' = FALSE
        /\ abortController' = 0 ]_vars

\* a new session was created right after a saved one, with another model and
\* another title, had been loaded
C19_Witness ==
  /\ lastCall.op = "createNewSession"
  /\ ~generating
  /\ sessionId \notin { 1, Saved.id }
  /\ model = Saved.model /\ model # DefaultModel
  /\ messages = <<>>

\* C20: clear, loadSession and createNewSession called while the controller is
\* Generating change nothing (session id, title, message list, model, busy flag
\* and cancellation handle stay as they were, no observer call is made), and the
\* next fragment of the stream in flight is appended to the same assistant message.
C20_SessionCallsWhileBusyAreNoOps ==
  [][ /\ (generating /\ lastCall'.op \in SessionCalls) =>
           UNCHANGED << ctrl, calls, nextId >>
      /\ (generating /\ lastCall.op \in SessionCalls /\ messages' # messages) =>
           LET n == Len(messages)
               c == calls[abortController]
           IN /\ Len(messages') = n
              /\ SubSeq(messages', 1, n - 1) = SubSeq(messages, 1, n - 1)
              /\ Last(messages').id = abortController
              /\ Last(messages).id = abortController
              /\ Last(messages').content =
                   Last(messages).content \o Fragment(Len(c.delivered)) ]_vars

\* loadSession was called while a stream that had delivered a fragment was
\* still open, and the controller still holds the session it had
C20_Witness ==
  /\ lastCall.op = "loadSession"
  /\ generating
  /\ sessionId # Saved.id /\ model # Saved.model
  /\ calls[abortController].pc = "streaming"
  /\ calls[abortController].delivered # <<>>
  /\ Len(calls[abortController].delivered) < MaxChunks

\* the fields of a ChatSession other than updatedAt
Stable(session) ==
  << session.id, session.title, session.messages, session.model, session.createdAt >>

\* C16: exportSession changes no field of the controller, idle or generating,
\* and of two consecutive calls with nothing but time between them the second
\* returns a session equal to the first in every field but updatedAt, which
\* does not decrease.
C16_ExportIsPure ==
  [][ /\ lastCall'.op = "exportSession" => UNCHANGED << ctrl, calls, nextId >>
      /\ (lastCall.op = "exportSession" /\ lastCall'.op = "exportSession" /\ now' = now) =>
           /\ Stable(exported') = Stable(exported)
           /\ exported'.updatedAt >= exported.updatedAt ]_vars

\* C17: the createdAt of an exported session is the createdAt of the first
\* message when the list is not empty, and the time the session was created
\* when the list is empty.
C17_CreatedAtOfExport ==
  lastCall.op = "exportSession" =>
    exported.createdAt = IF Len(messages) > 0 THEN messages[1].createdAt ELSE born

\* the saved session named by the id of a loadSession call
SessionById(id) == CHOOSE s \in SavedSessions : s.id = id

\* C18: loadSession(s) on an idle controller replaces session id, title, message
\* list and model by those of s in one step, and an exportSession right after it
\* returns the id, title, messages and model of s.
C18_LoadThenExportRoundTrip ==
  [][ /\ (lastCall'.op = "loadSession" /\ ~generating) =>
           LET s == SessionById(lastCall'.id)
           IN /\ sessionId' = s.id
              /\ sessionTitle' = s.title
              /\ messages' = s.messages
              /\ model' = s.model
              /\ generating' = FALSE /\ abortController' = 0
      /\ (lastCall.op = "loadSession" /\ ~generating /\ lastCall'.op = "exportSession") =>
           LET s == SessionById(lastCall.id)
           IN /\ exported'.id = s.id
              /\ exported'.title = s.title
              /\ exported'.messages = s.messages
              /\ exported'.model = s.model ]_vars

\* the saved session was loaded over a controller that held another session and
\* exported later than it was saved
C18_Witness ==
  /\ lastCall.op = "exportSession"
  /\ ~generating
  /\ exported.id = Saved.id /\ exported.id # 1
  /\ exported.title = Saved.title /\ exported.title # NewChatTitle
  /\ exported.messages = Saved.messages
  /\ exported.model = Saved.model /\ exported.model # DefaultModel
  /\ exported.updatedAt > Saved.updatedAt

\* C25 as stated: generateTitle returns the text itself when it has at most 50
\* characters, and its first 50 characters followed by "..." when it has more.
C25_TitleIsTextOrFirstFifty ==
  titleCall.made =>
    LET text == titleCall.text
    IN titleCall.title = IF Len(text) <= 50 THEN text
                                            ELSE SubSeq(text, 1, 50) \o <<".", ".", ".">>

\* C25, amended: generateTitle returns the text without the white space around
\* it when that has at most 50 characters, and the first 50 characters of it
\* followed by "..." when it has more.
C25_TitleIsTrimmedTextOrFirstFifty ==
  titleCall.made =>
    LET text == Trim(titleCall.text)
        title == titleCall.title
    IN IF Len(text) <= 50
         THEN title = text
         ELSE /\ Len(title) = 53
              /\ \A k \in 1..50 : title[k] = text[k]
              /\ \A k \in 51..53 : title[k] = "."

\* a title was made of a text of more than 50 characters with a space in front
C25_Witness ==
  /\ titleCall.made
  /\ Len(Trim(titleCall.text)) > 50
  /\ Head(titleCall.text) = " "
  /\ Len(titleCall.title) = 53

\* C27: after any sequence of saves and deletions loadChatSessions returns
\* every persisted session exactly once (the session last saved under each id
\* not deleted since, and nothing else), most recently saved first.
C27_LoadReturnsAllByRecency ==
  LET loaded == LoadChatSessions(storage.sessions)
  IN /\ Len(loaded) = Cardinality(DOMAIN kept)
     /\ \A i \in DOMAIN kept : \E k \in 1..Len(loaded) : loaded[k] = kept[i]
     /\ \A j, k \in 1..Len(loaded) : j < k => loaded[j].updatedAt >= loaded[k].updatedAt

\* three sessions are persisted, stored in another order than by recency, one
\* of them saved again after the others
C27_Witness ==
  /\ Cardinality(DOMAIN kept) = 3
  /\ storage.sessions # LoadChatSessions(storage.sessions)
  /\ \E i, j \in DOMAIN kept : kept[i].updatedAt > kept[j].updatedAt

\* C26: after every add and every removal of a custom model, typed in or
\* picked in the model browser, the persisted custom models hold no default
\* model, no entry twice and only names that start with "models/"; an add that
\* is rejected leaves them as they were.
C26_CustomModelsAreValid ==
  [][ LET stored == storage'.customModels
      IN /\ \A k \in 1..Len(stored) :
              /\ ~Has(DEFAULT_MODELS, stored[k])
              /\ \A j \in 1..Len(stored) : stored[j] = stored[k] => j = k
              /\ StartsWith(stored[k], ModelsPrefix)
         /\ ( /\ lastCall'.op = "handleAddModel"
              /\ LET m == Trim(lastCall'.text)
                 IN \/ ~StartsWith(m, ModelsPrefix)
                    \/ Has(DEFAULT_MODELS, m)
                    \/ Has(storage.customModels, m) )
            => stored = storage.customModels ]_vars

\* C29: in every reachable state the message list is in strictly chronological
\* order: of two adjacent messages the earlier has the smaller createdAt, the
\* user message and the assistant placeholder of one send included.
C29_StrictlyChronological ==
  \A k \in 1..(Len(messages) - 1) : messages[k].createdAt < messages[k + 1].createdAt

\* m.groundingMetadata?.sources as the page reads it (+page.svelte 774): the
\* sources of a message, none when the message has no such property
SourcesOf(m) ==
  IF "groundingMetadata" \in DOMAIN m THEN m.groundingMetadata.sources ELSE <<>>

\* C28: once a stream has completed, the assistant message of the generation
\* carries the grounding sources the stream delivered, and none when the stream
\* delivered none.
C28_SourcesReachTheMessage ==
  \A a \in DOMAIN calls :
    (calls[a].pc = "done" /\ calls[a].outcome = "success") =>
       SourcesOf(Last(messages)) = calls[a].grounding

\* C21: switchChat saves nothing: the persisted sessions, the session left and
\* the session opened among them, and the updatedAt of each one are after the
\* call what they were before it.
C21_SwitchChatSavesNothing ==
  [][ lastCall'.op = "switchChat" =>
        /\ storage'.sessions = storage.sessions
        /\ \A id \in StoredIds(storage.sessions) :
             /\ id \in StoredIds(storage'.sessions)
             /\ StoredById(storage'.sessions, id).updatedAt
                  = StoredById(storage.sessions, id).updatedAt ]_vars

\* switchChat opened the session of the earlier visit and left a session of
\* this one; both are persisted with messages, last saved before the present time
C21_Witness ==
  /\ lastCall.op = "switchChat"
  /\ lastCall.id = Saved.id
  /\ ui.currentSessionId = Saved.id
  /\ sessionId = Saved.id
  /\ messages = Saved.messages
  /\ model = Saved.model
  /\ StoredIds(storage.sessions) = { 1, Saved.id }
  /\ \A k \in 1..Len(storage.sessions) :
       /\ Len(storage.sessions[k].messages) > 0
       /\ storage.sessions[k].updatedAt < now

\* C22: the viewing operations, switchChat and createNewChat, leave the
\* persisted updatedAt of every session as it was, so that over any sequence of
\* them it is at the end what it was at the start.
C22_ViewingKeepsUpdatedAt ==
  [][ lastCall'.op \in { "switchChat", "createNewChat" } =>
        \A id \in StoredIds(storage.sessions) :
          /\ id \in StoredIds(storage'.sessions)
          /\ StoredById(storage'.sessions, id).updatedAt
               = StoredById(storage.sessions, id).updatedAt ]_vars

SavedByStep ==
  { k \in 1..Len(storage'.sessions) :
      \/ storage'.sessions[k].id \notin StoredIds(storage.sessions)
      \/ StoredById(storage.sessions, storage'.sessions[k].id) # storage'.sessions[k] }

\* C24: a save derives the title from the first user message exactly when the
\* title of the session is still "New Chat" (and keeps the title otherwise), and
\* a stored title other than "New Chat" is changed by no later save, one that
\* follows an edit of the first user message included.
C24_TitleDerivedOnce ==
  [][ /\ \A k \in SavedByStep :
           LET saved == storage'.sessions[k]
               first == FirstUser(saved.messages)
           IN /\ saved.id = sessionId
              /\ saved.title = IF sessionTitle = NewChatTitle /\ first # 0
                                 THEN GenerateTitle(saved.messages[first].content)
                                 ELSE sessionTitle
      /\ \A id \in StoredIds(storage.sessions) \cap StoredIds(storage'.sessions) :
           StoredById(storage.sessions, id).title # NewChatTitle =>
             StoredById(storage'.sessions, id).title = StoredById(storage.sessions, id).title
    ]_vars

\* the session was saved again after an edit of its first user message: the
\* stored messages begin with the new text, the stored title is the one
\* derived from the old text
C24_Witness ==
  /\ sessionId \in StoredIds(storage.sessions)
  /\ LET saved == StoredById(storage.sessions, sessionId)
     IN /\ Len(saved.messages) = 2
        /\ saved.messages = messages
        /\ saved.messages[1].role = "user"
        /\ saved.messages[1].content = << "e" >>
        /\ saved.title = GenerateTitle(<< "h" >>)
        /\ sessionTitle = saved.title
  /\ \E a \in DOMAIN calls : calls[a].pc = "done" /\ calls[a].outcome = "success"

\* C30: after deleteChat(id) loadChatSessions() returns no session with that
\* id, be it the current session or another, the message list empty or not, a
\* generation in flight or not.
C30_DeletedStaysDeleted ==
  [][ lastCall'.op = "deleteChat" =>
        lastCall'.id \notin StoredIds(LoadChatSessions(storage'.sessions)) ]_vars

C32_StopReachesOnlyItsGeneration ==
  [][ /\ \A a \in DOMAIN calls' \ DOMAIN calls :
           /\ abortController' = a
           /\ a \notin LiveHandles
           /\ a >= nextId
           /\ calls'[a].aborts = 0
      /\ \A a \in Ids : Ends(a) => abortController' = 0
      /\ (lastCall'.op = "stop" /\ ~generating) => calls' = calls
      /\ ~stops'.seen =>
           \A a \in DOMAIN calls' :
             /\ calls'[a].aborts = 0
             /\ calls'[a].outcome # "cancel"
             /\ calls'[a].msg.content = Flatten(calls'[a].delivered)
             /\ messages'[FindIndex(messages', a)].content = Flatten(calls'[a].delivered)
    ]_vars

\* a generation that began after a stop() call, with no stop() during it, has
\* ended with both fragments of its stream in its message
C32_Witness ==
  /\ stops.before /\ ~stops.seen
  /\ Len(messages) = 4
  /\ \E a \in DOMAIN calls :
       /\ calls[a].pc = "done"
       /\ calls[a].outcome = "success"
       /\ Len(calls[a].delivered) = 2
       /\ Last(messages).id = a
       /\ Last(messages).content = << "a", "b", "c" >>

\* a generation that stop() has signalled and whose finally block has not run
Stopped == { a \in DOMAIN calls : calls[a].aborts > 0 /\ calls[a].pc # "done" }

\* the methods that do nothing while the controller is generating
GuardedCalls == { "send", "edit", "regenerate", "clear", "loadSession", "createNewSession" }

\* C33: stop() changes neither the busy flag nor the message list and calls no
\* observer; from a stop() until the finally block of the generation has run
\* the controller is generating, and send, editMessage, regenerate, clear,
\* loadSession and createNewSession change nothing.
C33_StopLeavesTheControllerBusy ==
  [][ /\ lastCall'.op = "stop" =>
           /\ generating' = generating
           /\ messages' = messages
           /\ \A a \in DOMAIN calls :
                /\ a \in DOMAIN calls'
                /\ calls'[a].obs = calls[a].obs
                /\ calls'[a].pc = calls[a].pc
      /\ Stopped # {} =>
           /\ generating
           /\ lastCall'.op \in GuardedCalls => UNCHANGED << ctrl, calls, nextId >>
    ]_vars

\* createNewSession was called after stop(), while the stream that stop()
\* signalled was still open: the session is the one of before
C33_Witness ==
  /\ lastCall.op = "createNewSession"
  /\ generating
  /\ sessionId = 1
  /\ Len(messages) = 2
  /\ \E a \in Stopped : calls[a].pc = "streaming" /\ calls[a].stopPc = "streaming"

\* C34: the history handed to the transport is the list as it was before the
\* placeholder was appended, without the placeholder, with the model of that
\* moment: after send the old list and the new user message, after editMessage
\* the list up to the edited message with its new content and none of the
\* messages behind it, after regenerate the list without the assistant message
\* that was dropped; neither changes while the generation runs.
C34_HistoryHandedToTheTransport ==
  [][ /\ \A a \in DOMAIN calls' \ DOMAIN calls :
           LET c == calls'[a]
               n == Len(messages)
           IN /\ Len(messages') = Len(c.sent) + 1
              /\ SubSeq(messages', 1, Len(c.sent)) = c.sent
              /\ Last(messages').id = a
              /\ \A k \in 1..Len(c.sent) : c.sent[k].id # a
              /\ c.model = model
              /\ lastCall'.op = "send" =>
                   /\ Len(c.sent) = n + 1
                   /\ SubSeq(c.sent, 1, n) = messages
                   /\ Last(c.sent).role = "user"
                   /\ Last(c.sent).content = lastCall'.text
              /\ lastCall'.op = "edit" =>
                   LET i == FindIndex(messages, lastCall'.id)
                   IN /\ Len(c.sent) = i
                      /\ SubSeq(c.sent, 1, i - 1) = SubSeq(messages, 1, i - 1)
                      /\ c.sent[i] = [ messages[i] EXCEPT !.content = c.text ]
                      /\ \A k \in (i + 1)..n : \A j \in 1..i : c.sent[j].id # messages[k].id
              /\ lastCall'.op = "regenerate" =>
                   /\ Last(messages).role = "assistant" =>
                        /\ c.sent = SubSeq(messages, 1, n - 1)
                        /\ \A j \in 1..Len(c.sent) : c.sent[j].id # Last(messages).id
                   /\ Last(messages).role # "assistant" => c.sent = messages
      /\ \A a \in DOMAIN calls \cap DOMAIN calls' :
           calls'[a].sent = calls[a].sent /\ calls'[a].model = calls[a].model
    ]_vars

\* the generation of an editMessage is in flight: the transport got the edited
\* user message alone, the reply to the old text was discarded
C34_Witness ==
  \E a \in InFlight :
    LET c == calls[a]
    IN /\ c.op = "edit"
       /\ c.pc = "streaming"
       /\ Len(c.pre) = 2
       /\ c.pre[2].role = "assistant" /\ c.pre[2].content # <<>>
       /\ Len(c.sent) = 1
       /\ c.sent[1].content = << "e" >>
       /\ c.pre[1].content = << "h" >>

\* C35: a fragment without text or a malformed one is skipped on its own: it
\* changes neither the content of the assistant message nor the observer calls
\* made, the stream stays open, and the fragments that follow are appended.
C35_FragmentsSkippedOnTheirOwn ==
  [][ \A a \in DOMAIN calls \cap DOMAIN calls' :
        ( /\ calls[a].pc = "streaming"
          /\ calls[a].aborts = 0
          /\ \/ calls'[a].malformed > calls[a].malformed
             \/ (calls'[a].pc = "streaming" /\ calls'[a].delivered = calls[a].delivered) )
        => /\ calls'[a].pc = "streaming"
           /\ calls'[a].outcome = "none"
           /\ calls'[a].obs = calls[a].obs
           /\ messages' = messages ]_vars

\* C36: setModel changes the model and setSessionTitle the title, and nothing
\* else, while idle and while generating: list, busy flag, handle and session
\* id stay, no observer is called, and the stream in flight keeps the model it
\* was opened with.
C36_SettersTouchOneField ==
  [][ /\ lastCall'.op = "setModel" =>
           /\ model' = lastCall'.text
           /\ UNCHANGED << messages, generating, abortController, sessionId, sessionTitle,
                           calls, nextId >>
      /\ lastCall'.op = "setSessionTitle" =>
           /\ sessionTitle' = lastCall'.text
           /\ UNCHANGED << messages, generating, abortController, sessionId, model,
                           calls, nextId >>
      /\ \A a \in DOMAIN calls \cap DOMAIN calls' : calls'[a].model = calls[a].model
    ]_vars

\* setModel was called with another model while a stream that had delivered a
\* fragment was open; the stream has the model it was opened with
C36_Witness ==
  /\ lastCall.op = "setModel"
  /\ model = "models/gemini-pro-latest"
  /\ sessionTitle = << "T" >>
  /\ generating
  /\ \E a \in InFlight :
       /\ calls[a].pc = "streaming"
       /\ Len(calls[a].delivered) = 1
       /\ calls[a].model = "gemini-2.5-flash"

\* user, assistant, user, assistant, ...: odd places hold user messages, even
\* places assistant messages, and the last place is even
Alternates(msgs) ==
  /\ Len(msgs) % 2 = 0
  /\ \A k \in 1..Len(msgs) : msgs[k].role = IF k % 2 = 1 THEN "user" ELSE "assistant"

\* C37: a controller that was newly constructed and never loaded a session
\* holds, whenever it is idle, an empty list or one of even length that
\* alternates user and assistant messages from a user message to an assistant
\* message, whatever the outcome of its streams.
C37_IdleListAlternates == ~generating => Alternates(messages)

\* idle after the edit of a user message that had a reply: the stream of the
\* edit failed, the list is the edited message and the placeholder of its reply
C37_Witness ==
  /\ ~generating
  /\ Len(messages) = 2
  /\ messages[1].content = << "e" >>
  /\ \E a \in DOMAIN calls :
       /\ calls[a].op = "edit" /\ calls[a].pc = "done" /\ calls[a].outcome = "error"
       /\ Len(calls[a].pre) = 2
       /\ calls[a].pre[2].content = << "a" >>

\* C38: a session exportSession returned is a snapshot: whatever the
\* controller does later, the session keeps the number of its messages and the
\* content of each of them.
C38_ExportIsASnapshot ==
  [][ (held.id # 0 /\ lastCall'.op # "exportSession") =>
        /\ Len(held'.messages) = Len(held.messages)
        /\ \A k \in 1..Len(held.messages) :
             held'.messages[k].content = held.messages[k].content ]_vars

====
